---- MODULE Spec2Model ----
(***************************************************************************)
(* anime-data-scraper: the retrying fetcher (api.Client.fetchData), the    *)
(* paginated fetches built on it (GetTopAnime, GetAnimeReviews), the       *)
(* single fetch GetAnimeDetails, the CSV exporter and the workflow         *)
(* Collector.CollectAnimeData.                                             *)
(*                                                                         *)
(* The program is single threaded.  Its only inputs are the answers of the *)
(* upstream API to each HTTP GET and the outcome of each file operation;   *)
(* both are chosen nondeterministically, one answer per request.           *)
(*                                                                         *)
(* Four specifications share the definitions:                              *)
(*   SpecFetch     one call of fetchData, with its trace of requests and   *)
(*                 sleeps;                                                 *)
(*   SpecPaginate  one call of GetTopAnime / GetAnimeReviews with any      *)
(*                 limit;                                                  *)
(*   SpecExport    one call of one of the five exports, for any collection;*)
(*   Spec          one run of CollectAnimeData.                            *)
(***************************************************************************)
EXTENDS Integers, Sequences, FiniteSets, TLC

VARIABLES
    outs,        \* SpecFetch: the upstream's answers to the attempts of the call
    fetch,       \* SpecFetch: what the last fetchData call did and returned
    pg,          \* the paginated fetch in progress (GetTopAnime / GetAnimeReviews)
    pc,          \* CollectAnimeData: the step the run is at
    topAnime,    \* CollectAnimeData: topAnime
    enrichedAnime, \* CollectAnimeData: enrichedAnime
    allReviews,  \* CollectAnimeData: allReviews
    idx,         \* CollectAnimeData: loop index i of the pass in progress
    runErr,      \* CollectAnimeData: the returned error ("nil" when none)
    files,       \* the five output files: what each export did and what is on disk
    detailLog,   \* one record per GetAnimeDetails call of the run
    reviewLog,   \* one record per GetAnimeReviews call of the run
    issued       \* endpoints for which fetchData has been called in the run

vars == <<outs, fetch, pg, pc, topAnime, enrichedAnime, allReviews, idx, runErr,
          files, detailLog, reviewLog, issued>>

----------------------------------------------------------------------------
(* config/config.go *)

MaxRetries == 3
\* time.Second units
RetryDelay == 1
RateLimitDelay == 1

(* Bounds of the model. *)

\* mal_id values the upstream may serve
MaxId == 2
\* items on one page of a list endpoint
MaxPageItems == 2
\* largest limit a paginated fetch is called with in SpecPaginate
MaxLimit == 3

Ids == 1..MaxId

Min(a, b) == IF a < b THEN a ELSE b

RECURSIVE SeqSum(_)
SeqSum(s) == IF s = <<>> THEN 0 ELSE Head(s) + SeqSum(Tail(s))

\* all sequences over S of length 0..n
SeqsUpTo(S, n) == UNION {[1..k -> S] : k \in 0..n}

----------------------------------------------------------------------------
(* strings, strconv: a Go string is a sequence of bytes, each byte written as a
   one-character string *)

Digits == <<"0", "1", "2", "3", "4", "5", "6", "7", "8", "9">>
IsDigit(c) == \E d \in DOMAIN Digits : Digits[d] = c
DigitVal(c) == (CHOOSE d \in DOMAIN Digits : Digits[d] = c) - 1

\* strconv.Itoa
RECURSIVE Itoa(_)
Itoa(n) ==
    IF n < 0 THEN <<"-">> \o Itoa(-n)
    ELSE IF n < 10 THEN <<Digits[n + 1]>>
    ELSE Itoa(n \div 10) \o <<Digits[(n % 10) + 1]>>

RECURSIVE DigitsValue(_, _)
DigitsValue(s, acc) ==
    IF s = <<>> THEN acc ELSE DigitsValue(Tail(s), 10 * acc + DigitVal(Head(s)))

\* strconv.Atoi: an optional sign, then one or more decimal digits and nothing
\* else; err is the *NumError
Atoi(s) ==
    LET signed == s # <<>> /\ Head(s) \in {"+", "-"}
        ds == IF signed THEN Tail(s) ELSE s
    IN  IF ds = <<>> \/ \E i \in DOMAIN ds : ~IsDigit(ds[i])
        THEN [n |-> 0, err |-> TRUE]
        ELSE [n |-> IF signed /\ Head(s) = "-" THEN 0 - DigitsValue(ds, 0)
                    ELSE DigitsValue(ds, 0),
              err |-> FALSE]

\* strconv.FormatFloat(f, 'f', 2, 64) of a float that is h hundredths, h >= 0
FormatFloat(h) ==
    Itoa(h \div 100) \o <<".", Digits[((h % 100) \div 10) + 1], Digits[(h % 10) + 1]>>

\* strings.ReplaceAll(s, old, new) for a one-byte old and a one-byte new
ReplaceAll(s, old, new) == [i \in DOMAIN s |-> IF s[i] = old THEN new ELSE s[i]]

----------------------------------------------------------------------------
(* types: the decoded JSON values the model distinguishes *)

Nil == [kind |-> "nil"]

\* the value of one entry of AnimeStatistics.Scores: Votes, and Percentage in
\* hundredths; two keys of different length carry different values
ScoreData(key) ==
    [votes |-> 4 + Len(key), percentage |-> IF Len(key) = 1 THEN 1234 ELSE 300]

\* types.AnimeStatistics whose Scores map has the keys K
Snapshot(K) ==
    [kind |-> "stats", watching |-> 3, completed |-> 2, on_hold |-> 1, dropped |-> 1,
     plan_to_watch |-> 0, total |-> 7, scores |-> [k \in K |-> ScoreData(k)]]

\* the statistics object of the upstream of a run: Scores is an empty map
Statistics == Snapshot({})

\* what the upstream holds for an id: odd ids carry two genres, no studio and,
\* in the detail endpoint, a statistics object; even ids carry no genre, one
\* studio and no statistics object
GenresOf(id) == IF id % 2 = 1 THEN <<10, 11>> ELSE <<>>
StudiosOf(id) == IF id % 2 = 0 THEN <<20>> ELSE <<>>
StatisticsOf(id) == IF id % 2 = 1 THEN Statistics ELSE Nil

\* types.AnimeData
AnimeData(id, stats) ==
    [mal_id |-> id, genres |-> GenresOf(id), studios |-> StudiosOf(id),
     statistics |-> stats]

\* entries of the ranked list
TopItems == {AnimeData(id, Nil) : id \in Ids}
\* the entry of the detail endpoint for an id
DetailItems(id) == {AnimeData(id, StatisticsOf(id))}

\* types.ReviewData of the reviews of entry id: its own mal_id, the anime
\* reference of the payload, which names the entry (odd ids) or is left out
\* (even ids: the zero value), and the body
ReviewItems(id) ==
    {[mal_id |-> 1, anime_id |-> IF id % 2 = 1 THEN id ELSE 0, review |-> <<"a", "\n">>]}

\* a response body: bytes, known by what json.Unmarshal makes of them
\*   page     {data: [...], pagination: {has_next_page}}
\*   single   {data: {...}}
\*   bad      bytes that are no JSON of the expected shape
\*   partial  the bytes io.ReadAll had read when it failed
PageBodies(items) ==
    {[kind |-> "page", data |-> d, has_next_page |-> h] :
        d \in SeqsUpTo(items, MaxPageItems), h \in BOOLEAN}
SingleBodies(id) == {[kind |-> "single", data |-> e] : e \in DetailItems(id)}
BadBody == [kind |-> "bad"]
PartialBody == [kind |-> "partial"]

\* the complete bodies an endpoint may serve with status 200, id being the
\* mal_id of the URL (0 for the ranked list, which has none); the detail
\* endpoint answers with the entry asked for
BodiesOf(endpoint, id) ==
    CASE endpoint = "top" -> PageBodies(TopItems) \cup {BadBody}
      [] endpoint = "details" -> SingleBodies(id) \cup {BadBody}
      [] endpoint = "reviews" -> PageBodies(ReviewItems(id)) \cup {BadBody}

\* what one HTTP GET can come to:
\*   neterr   httpClient.Get returns an error
\*   429      StatusTooManyRequests
\*   non200   any other status that is not 200
\*   readerr  status 200, io.ReadAll fails after reading part of the body
\*   ok       status 200, body read completely
Kinds == {"neterr", "429", "non200", "readerr", "ok"}

Outcome(k, b) ==
    [kind |-> k,
     body |-> CASE k = "ok" -> b
                [] k = "readerr" -> PartialBody
                [] OTHER -> Nil]

\* the answers to the MaxRetries attempts one call can make; the resource does
\* not change between the retries of a call, so every 200 carries the body b
Scripts(endpoint, id) ==
    {[i \in 1..MaxRetries |-> Outcome(ks[i], b)] :
        ks \in [1..MaxRetries -> Kinds], b \in BodiesOf(endpoint, id)}

----------------------------------------------------------------------------
(* api.Client.fetchData *)

Request == [ev |-> "request", d |-> 0]
Sleep(why, d) == [ev |-> why, d |-> d]

\* the local variables of fetchData before the first attempt: err and body are
\* zero values, nothing requested, nothing slept
FetchStart == [err |-> "nil", body |-> Nil, requests |-> 0, trace |-> <<>>, brk |-> FALSE]

\* 429 handled like any other failure status: err set, no extended backoff
AttemptNoBackoff(st, attempt, o) ==
    LET t0 == IF attempt > 1 THEN Append(st.trace, Sleep("retry", RetryDelay)) ELSE st.trace
        t1 == Append(t0, Request)
        s1 == [st EXCEPT !.trace = t1, !.requests = st.requests + 1]
    IN  CASE o.kind = "neterr" -> [s1 EXCEPT !.err = "net"]
          [] o.kind \in {"429", "non200"} -> [s1 EXCEPT !.err = "status"]
          [] o.kind = "readerr" -> [s1 EXCEPT !.err = "read", !.body = o.body]
          [] o.kind = "ok" -> [s1 EXCEPT !.err = "nil", !.body = o.body, !.brk = TRUE]

\* a successful attempt does not leave the loop
AttemptNoBreak(st, attempt, o) ==
    LET t0 == IF attempt > 1 THEN Append(st.trace, Sleep("retry", RetryDelay)) ELSE st.trace
        t1 == Append(t0, Request)
        s1 == [st EXCEPT !.trace = t1, !.requests = st.requests + 1]
    IN  CASE o.kind = "neterr" -> [s1 EXCEPT !.err = "net"]
          [] o.kind = "429" ->
                [s1 EXCEPT !.err = "nil",
                           !.trace = Append(t1, Sleep("backoff", RateLimitDelay * 2))]
          [] o.kind = "non200" -> [s1 EXCEPT !.err = "status"]
          [] o.kind = "readerr" -> [s1 EXCEPT !.err = "read", !.body = o.body]
          [] o.kind = "ok" -> [s1 EXCEPT !.err = "nil", !.body = o.body]

\* the retry sleep is taken before every attempt, the first included
AttemptSleepFirst(st, attempt, o) ==
    LET t0 == Append(st.trace, Sleep("retry", RetryDelay))
        t1 == Append(t0, Request)
        s1 == [st EXCEPT !.trace = t1, !.requests = st.requests + 1]
    IN  CASE o.kind = "neterr" -> [s1 EXCEPT !.err = "net"]
          [] o.kind = "429" ->
                [s1 EXCEPT !.err = "nil",
                           !.trace = Append(t1, Sleep("backoff", RateLimitDelay * 2))]
          [] o.kind = "non200" -> [s1 EXCEPT !.err = "status"]
          [] o.kind = "readerr" -> [s1 EXCEPT !.err = "read", !.body = o.body]
          [] o.kind = "ok" -> [s1 EXCEPT !.err = "nil", !.body = o.body, !.brk = TRUE]

\* one iteration of the retry loop (lines 40-76): the sleep before a retry, the
\* GET, and the four ways the iteration ends
Attempt(st, attempt, o) ==
    LET t0 == IF attempt > 1 THEN Append(st.trace, Sleep("retry", RetryDelay)) ELSE st.trace
        t1 == Append(t0, Request)
        s1 == [st EXCEPT !.trace = t1, !.requests = st.requests + 1]
    IN  CASE o.kind = "neterr" -> [s1 EXCEPT !.err = "net"]
             \* resp, err = Get(url) has set err to nil; the branch leaves it so
          [] o.kind = "429" ->
                [s1 EXCEPT !.err = "nil",
                           !.trace = Append(t1, Sleep("backoff", RateLimitDelay * 2))]
          [] o.kind = "non200" -> [s1 EXCEPT !.err = "status"]
             \* body, err = io.ReadAll(resp.Body): body keeps the bytes read
          [] o.kind = "readerr" -> [s1 EXCEPT !.err = "read", !.body = o.body]
          [] o.kind = "ok" -> [s1 EXCEPT !.err = "nil", !.body = o.body, !.brk = TRUE]

\* for attempt := 1; attempt <= config.MaxRetries; attempt++
RECURSIVE FetchLoop(_, _, _)
FetchLoop(st, attempt, script) ==
    IF attempt > MaxRetries \/ st.brk
    THEN st
    ELSE FetchLoop(Attempt(st, attempt, script[attempt]), attempt + 1, script)

\* the throttle sleep is taken before the error check
FetchReturnSleepFirst(st) ==
    LET t == Append(st.trace, Sleep("throttle", RateLimitDelay))
    IN  IF st.err # "nil"
        THEN [body |-> Nil, err |-> "failed", cause |-> st.err,
              requests |-> st.requests, trace |-> t]
        ELSE [body |-> st.body, err |-> "nil", cause |-> "nil",
              requests |-> st.requests, trace |-> t]

\* lines 78-85: the error check after the loop, the throttle sleep, the return
FetchReturn(st) ==
    IF st.err # "nil"
    THEN [body |-> Nil, err |-> "failed", cause |-> st.err,
          requests |-> st.requests, trace |-> st.trace]
    ELSE [body |-> st.body, err |-> "nil", cause |-> "nil",
          requests |-> st.requests,
          trace |-> Append(st.trace, Sleep("throttle", RateLimitDelay))]

\* fetchData(url) against an upstream that answers the attempts with script
FetchData(script) == FetchReturn(FetchLoop(FetchStart, 1, script))

NoFetch == [body |-> Nil, err |-> "none", cause |-> "nil", requests |-> 0, trace |-> <<>>]
NoScript == <<>>

Endpoints == {"top", "details", "reviews"}

\* what a caller sees of a fetchData call: the returned bytes and error
Returned(r) == [body |-> r.body, err |-> r.err]

\* the ids a URL of the endpoint can name
UrlIds(endpoint) == IF endpoint = "top" THEN {0} ELSE Ids

\* a fetchData call as the HTTP server and the caller together see it: the
\* returned bytes and error, and the number of GETs
Counted(r) == [body |-> r.body, err |-> r.err, requests |-> r.requests]

\* every return fetchData can make for a URL, with the GETs it took
FetchReturnsCounted ==
    [e \in Endpoints |->
        [id \in 0..MaxId |-> {Counted(FetchData(s)) : s \in Scripts(e, id)}]]

\* every return fetchData can make for a URL
FetchReturns ==
    [e \in Endpoints |->
        [id \in 0..MaxId |-> {Returned(FetchData(s)) : s \in Scripts(e, id)}]]

----------------------------------------------------------------------------
(* api.Client.GetTopAnime and api.Client.GetAnimeReviews: the same loop *)

\* json.Unmarshal into AnimeResponse / ReviewResponse
DecodesAsPage(body) == body.kind = "page"
\* json.Unmarshal into SingleAnimeResponse
DecodesAsSingle(body) == body.kind = "single"

PgIdle ==
    [status |-> "idle", endpoint |-> "top", malID |-> 0, limit |-> 0, page |-> 1,
     all |-> <<>>, result |-> <<>>, err |-> "nil", log |-> <<>>, requests |-> 0]

\* the loop body runs once whatever the limit is
PgEnterAlwaysRuns(endpoint, malID, limit) ==
    [status |-> "running",
     endpoint |-> endpoint, malID |-> malID, limit |-> limit, page |-> 1,
     all |-> <<>>, result |-> <<>>, err |-> "nil", log |-> <<>>, requests |-> 0]

\* lines 90-93 / 146-149: the locals, and the loop condition tested the first
\* time; with limit <= 0 the loop body never runs and the empty slice is returned
PgEnter(endpoint, malID, limit) ==
    [status |-> IF 0 < limit THEN "running" ELSE "ok",
     endpoint |-> endpoint, malID |-> malID, limit |-> limit, page |-> 1,
     all |-> <<>>, result |-> <<>>, err |-> "nil", log |-> <<>>, requests |-> 0]

\* what the loop learned of the page it asked for: whether it came and decoded,
\* response.Data with its length, and response.Pagination.HasNextPage
PgLog(p, res, data, more) ==
    Append(p.log, [page |-> p.page, res |-> res, count |-> Len(data), data |-> data,
                   more |-> more])

\* a page that fails to decode is skipped and the next page is fetched
PageIterSkipBad(p, r) ==
    IF r.err # "nil"
    THEN [p EXCEPT !.status = "err", !.err = r.err, !.result = <<>>,
                   !.log = PgLog(p, "fetcherr", <<>>, FALSE)]
    ELSE IF ~DecodesAsPage(r.body)
    THEN [p EXCEPT !.page = p.page + 1, !.log = PgLog(p, "decodeerr", <<>>, FALSE)]
    ELSE LET data == r.body.data
             lg == PgLog(p, "ok", data, r.body.has_next_page)
             grown == p.all \o data
         IN  IF Len(data) = 0 \/ ~r.body.has_next_page
             THEN [p EXCEPT !.status = "ok", !.result = p.all, !.log = lg]
             ELSE IF Len(grown) >= p.limit
             THEN [p EXCEPT !.status = "ok", !.all = SubSeq(grown, 1, p.limit),
                            !.result = SubSeq(grown, 1, p.limit), !.log = lg]
             ELSE [p EXCEPT !.all = grown, !.page = p.page + 1, !.log = lg]

\* the accumulated collection is returned as it is, without the cut to limit
PageIterNoTruncate(p, r) ==
    IF r.err # "nil"
    THEN [p EXCEPT !.status = "err", !.err = r.err, !.result = <<>>,
                   !.log = PgLog(p, "fetcherr", <<>>, FALSE)]
    ELSE IF ~DecodesAsPage(r.body)
    THEN [p EXCEPT !.status = "err", !.err = "decode", !.result = <<>>,
                   !.log = PgLog(p, "decodeerr", <<>>, FALSE)]
    ELSE LET data == r.body.data
             lg == PgLog(p, "ok", data, r.body.has_next_page)
             grown == p.all \o data
         IN  IF Len(data) = 0 \/ ~r.body.has_next_page
             THEN [p EXCEPT !.status = "ok", !.result = p.all, !.log = lg]
             ELSE IF Len(grown) >= p.limit
             THEN [p EXCEPT !.status = "ok", !.all = grown, !.result = grown, !.log = lg]
             ELSE [p EXCEPT !.all = grown, !.page = p.page + 1, !.log = lg]

\* has_next_page is not looked at: only an empty page ends the loop early
PageIterIgnoreHasNext(p, r) ==
    IF r.err # "nil"
    THEN [p EXCEPT !.status = "err", !.err = r.err, !.result = <<>>,
                   !.log = PgLog(p, "fetcherr", <<>>, FALSE)]
    ELSE IF ~DecodesAsPage(r.body)
    THEN [p EXCEPT !.status = "err", !.err = "decode", !.result = <<>>,
                   !.log = PgLog(p, "decodeerr", <<>>, FALSE)]
    ELSE LET data == r.body.data
             lg == PgLog(p, "ok", data, r.body.has_next_page)
             grown == p.all \o data
         IN  IF Len(data) = 0
             THEN [p EXCEPT !.status = "ok", !.result = p.all, !.log = lg]
             ELSE IF Len(grown) >= p.limit
             THEN [p EXCEPT !.status = "ok", !.all = SubSeq(grown, 1, p.limit),
                            !.result = SubSeq(grown, 1, p.limit), !.log = lg]
             ELSE [p EXCEPT !.all = grown, !.page = p.page + 1, !.log = lg]

\* the page number stays what it is
PageIterNoIncrement(p, r) ==
    IF r.err # "nil"
    THEN [p EXCEPT !.status = "err", !.err = r.err, !.result = <<>>,
                   !.log = PgLog(p, "fetcherr", <<>>, FALSE)]
    ELSE IF ~DecodesAsPage(r.body)
    THEN [p EXCEPT !.status = "err", !.err = "decode", !.result = <<>>,
                   !.log = PgLog(p, "decodeerr", <<>>, FALSE)]
    ELSE LET data == r.body.data
             lg == PgLog(p, "ok", data, r.body.has_next_page)
             grown == p.all \o data
         IN  IF Len(data) = 0 \/ ~r.body.has_next_page
             THEN [p EXCEPT !.status = "ok", !.result = p.all, !.log = lg]
             ELSE IF Len(grown) >= p.limit
             THEN [p EXCEPT !.status = "ok", !.all = SubSeq(grown, 1, p.limit),
                            !.result = SubSeq(grown, 1, p.limit), !.log = lg]
             ELSE [p EXCEPT !.all = grown, !.log = lg]

\* a page is put in front of the pages before it
PageIterPrepend(p, r) ==
    IF r.err # "nil"
    THEN [p EXCEPT !.status = "err", !.err = r.err, !.result = <<>>,
                   !.log = PgLog(p, "fetcherr", <<>>, FALSE)]
    ELSE IF ~DecodesAsPage(r.body)
    THEN [p EXCEPT !.status = "err", !.err = "decode", !.result = <<>>,
                   !.log = PgLog(p, "decodeerr", <<>>, FALSE)]
    ELSE LET data == r.body.data
             lg == PgLog(p, "ok", data, r.body.has_next_page)
             grown == data \o p.all
         IN  IF Len(data) = 0 \/ ~r.body.has_next_page
             THEN [p EXCEPT !.status = "ok", !.result = p.all, !.log = lg]
             ELSE IF Len(grown) >= p.limit
             THEN [p EXCEPT !.status = "ok", !.all = SubSeq(grown, 1, p.limit),
                            !.result = SubSeq(grown, 1, p.limit), !.log = lg]
             ELSE [p EXCEPT !.all = grown, !.page = p.page + 1, !.log = lg]

\* one iteration of the loop (lines 93-121 / 149-177) for the return r of its
\* fetchData call, up to the next test of the loop condition; a return of the
\* function is the status leaving "running"
PageIter(p, r) ==
    IF r.err # "nil"
    THEN \* return nil, err
         [p EXCEPT !.status = "err", !.err = r.err, !.result = <<>>,
                   !.log = PgLog(p, "fetcherr", <<>>, FALSE)]
    ELSE IF ~DecodesAsPage(r.body)
    THEN \* return nil, fmt.Errorf("failed to unmarshal ...")
         [p EXCEPT !.status = "err", !.err = "decode", !.result = <<>>,
                   !.log = PgLog(p, "decodeerr", <<>>, FALSE)]
    ELSE LET data == r.body.data
             lg == PgLog(p, "ok", data, r.body.has_next_page)
             grown == p.all \o data
         IN  IF Len(data) = 0 \/ ~r.body.has_next_page
             THEN \* break, before the page is appended
                  [p EXCEPT !.status = "ok", !.result = p.all, !.log = lg]
             ELSE IF Len(grown) >= p.limit
             THEN \* allAnime = allAnime[:limit]; break
                  [p EXCEPT !.status = "ok", !.all = SubSeq(grown, 1, p.limit),
                            !.result = SubSeq(grown, 1, p.limit), !.log = lg]
             ELSE \* page++, and len(all) < limit holds
                  [p EXCEPT !.all = grown, !.page = p.page + 1, !.log = lg]

----------------------------------------------------------------------------
(* exporter.CSVExporter: the five tables *)

Tables == {"basic", "genres", "studios", "statistics", "reviews"}

\* the longest review text that is written as it is (32000 in the code)
ReviewTextLimit == 2

RECURSIVE Flatten(_)
Flatten(ss) == IF ss = <<>> THEN <<>> ELSE Head(ss) \o Flatten(Tail(ss))

\* the header of each table (lines 49-54, 107, 145, 183-197, 272-276)
Columns(table) ==
    CASE table = "basic" ->
            <<"mal_id", "title", "title_english", "title_japanese", "type", "source",
              "episodes", "status", "airing", "aired_from", "aired_to", "duration",
              "rating", "score", "scored_by", "rank", "popularity", "members",
              "favorites", "season", "year">>
      [] table = "genres" -> <<"anime_id", "genre_id", "genre_name">>
      [] table = "studios" -> <<"anime_id", "studio_id", "studio_name">>
      [] table = "statistics" ->
            <<"anime_id", "watching", "completed", "on_hold", "dropped",
              "plan_to_watch", "total_stats">>
            \o <<"score_1_votes", "score_1_percentage", "score_2_votes",
                 "score_2_percentage", "score_3_votes", "score_3_percentage",
                 "score_4_votes", "score_4_percentage", "score_5_votes",
                 "score_5_percentage", "score_6_votes", "score_6_percentage",
                 "score_7_votes", "score_7_percentage", "score_8_votes",
                 "score_8_percentage", "score_9_votes", "score_9_percentage",
                 "score_10_votes", "score_10_percentage">>
      [] table = "reviews" ->
            <<"review_id", "anime_id", "anime_title", "reviewer_username", "score",
              "date", "is_spoiler", "tags", "review_text">>

Header(table) == [header |-> Columns(table)]

\* ExportAnimeBasicData, lines 61-89: one row per entry (the mal_id column; the
\* other scalar columns are copied from the entry in the same way)
BasicRows(animeList) ==
    [i \in 1..Len(animeList) |-> [anime_id |-> animeList[i].mal_id, tag |-> 0]]

\* ExportAnimeGenres, lines 114-127: one row per entry and genre
GenreRows(animeList) ==
    Flatten([i \in 1..Len(animeList) |->
        [j \in 1..Len(animeList[i].genres) |->
            [anime_id |-> animeList[i].mal_id, tag |-> animeList[i].genres[j]]]])

\* ExportAnimeStudios, lines 152-165: one row per entry and studio
StudioRows(animeList) ==
    Flatten([i \in 1..Len(animeList) |->
        [j \in 1..Len(animeList[i].studios) |->
            [anime_id |-> animeList[i].mal_id, tag |-> animeList[i].studios[j]]]])

\* the orders in which a range over a map with the key set S can visit it
Orders(S) ==
    {o \in [1..Cardinality(S) -> S] : \A i, j \in DOMAIN o : o[i] = o[j] => i = j}

\* lines 210-217: scoreVotes[i], scorePercentages[i] = "0", "0"
NoScores == [i \in 1..10 |-> <<<<"0">>, <<"0">>>>]

\* the slot of score 1 is given to score 2, and so on
FillScoresOffByOne(cols, scores, order) ==
    LET put(c, k) ==
            LET a == Atoi(k)
            IN  IF a.err THEN c
                ELSE IF a.n >= 1 /\ a.n <= 9
                THEN [c EXCEPT ![a.n + 1] = <<Itoa(scores[k].votes),
                                              FormatFloat(scores[k].percentage)>>]
                ELSE c
        fill[n \in 0..Len(order)] == IF n = 0 THEN cols ELSE put(fill[n - 1], order[n])
    IN  fill[Len(order)]

\* lines 220-232: the range over anime.Statistics.Scores, visiting the keys in
\* the given order; slot scoreInt of the model is index scoreInt - 1 of the code
FillScores(cols, scores, order) ==
    LET put(c, k) ==
            LET a == Atoi(k)
            IN  IF a.err THEN c
                ELSE IF a.n >= 1 /\ a.n <= 10
                THEN [c EXCEPT ![a.n] = <<Itoa(scores[k].votes),
                                          FormatFloat(scores[k].percentage)>>]
                ELSE c
        fill[n \in 0..Len(order)] == IF n = 0 THEN cols ELSE put(fill[n - 1], order[n])
    IN  fill[Len(order)]

\* lines 234-248: the row of an entry that has statistics
StatisticsRow(anime, order) ==
    LET st == anime.statistics
    IN  [anime_id |-> anime.mal_id, tag |-> st.total,
         cols |-> <<Itoa(anime.mal_id), Itoa(st.watching), Itoa(st.completed),
                    Itoa(st.on_hold), Itoa(st.dropped), Itoa(st.plan_to_watch),
                    Itoa(st.total)>>
                  \o Flatten(FillScores(NoScores, st.scores, order))]

\* the visiting orders of the score maps of a collection: one per entry, the
\* empty one for an entry without statistics
OrdersOf(anime) ==
    IF anime.statistics = Nil THEN {<<>>} ELSE Orders(DOMAIN anime.statistics.scores)
ScoreOrders(animeList) ==
    {f \in [1..Len(animeList) -> UNION {OrdersOf(animeList[i]) : i \in DOMAIN animeList}] :
        \A i \in DOMAIN animeList : f[i] \in OrdersOf(animeList[i])}

\* the pass ends at the first entry without statistics
StatisticsRowsStopAtAbsent(animeList, orders) ==
    LET absent == {i \in DOMAIN animeList : animeList[i].statistics = Nil}
        n == IF absent = {} THEN Len(animeList)
             ELSE (CHOOSE i \in absent : \A j \in absent : i <= j) - 1
    IN  [i \in 1..n |-> StatisticsRow(animeList[i], orders[i])]

\* ExportAnimeStatistics, lines 204-254: one row per entry that has statistics
StatisticsRows(animeList, orders) ==
    Flatten([i \in 1..Len(animeList) |->
        IF animeList[i].statistics = Nil
        THEN <<>>
        ELSE <<StatisticsRow(animeList[i], orders[i])>>])

Ellipsis == <<".", ".", ".">>

\* a carriage return stays in the text
ReviewTextKeepCR(body) ==
    LET t == ReplaceAll(body, "\n", " ")
    IN  IF Len(t) > ReviewTextLimit THEN SubSeq(t, 1, ReviewTextLimit) \o Ellipsis ELSE t

\* a text of exactly the limit is cut too
ReviewTextCutAtLimit(body) ==
    LET t == ReplaceAll(ReplaceAll(body, "\n", " "), "\r", " ")
    IN  IF Len(t) >= ReviewTextLimit THEN SubSeq(t, 1, ReviewTextLimit) \o Ellipsis ELSE t

\* lines 285-289: the review text as it is written; len and the slice count bytes
ReviewText(body) ==
    LET t == ReplaceAll(ReplaceAll(body, "\n", " "), "\r", " ")
    IN  IF Len(t) > ReviewTextLimit THEN SubSeq(t, 1, ReviewTextLimit) \o Ellipsis ELSE t

\* ExportAnimeReviews, lines 283-306: one row per review, anime_id being the
\* payload's review.Anime.MalID
ReviewRows(reviews) ==
    [i \in 1..Len(reviews) |->
        [anime_id |-> reviews[i].anime_id, tag |-> reviews[i].mal_id,
         review_text |-> ReviewText(reviews[i].review)]]

\* a file: whether os.Create made it, what the export returned, which file
\* operation failed, and the lines on disk after the deferred Flush and Close
NoFile == [state |-> "absent", ret |-> "nil", failed |-> "none", disk |-> <<>>]

\* no header line is written for a table without rows
WrittenHeaderIfRows(table, rows) == IF rows = <<>> THEN <<>> ELSE <<Header(table)>> \o rows

\* the lines of a whole table, in the order of the writer.Write calls, and the
\* file as os.Create leaves it
Written(table, rows) == <<Header(table)>> \o rows
Empty == <<>>

\* the data rows among the lines of a file
DataRows(disk) == IF disk = <<>> THEN <<>> ELSE Tail(disk)

\* the ways the file operations of one export can go: none fails; os.Create
\* fails; a writer.Write fails; the deferred writer.Flush fails.  csv.Writer
\* buffers 4096 bytes and the tables of the model are shorter, so lines reach
\* the disk in Flush only: a failed Write or Flush leaves the created file empty
ExportOutcomes == {"none", "create", "write", "flush"}

\* Flush reports its failure to the caller
ExportFileFlushChecked(table, rows, how) ==
    CASE how = "none" ->
            [state |-> "written", ret |-> "nil", failed |-> "none",
             disk |-> Written(table, rows)]
      [] how = "create" ->
            [state |-> "absent", ret |-> "err", failed |-> "create", disk |-> Empty]
      [] how = "write" ->
            [state |-> "written", ret |-> "err", failed |-> "write", disk |-> Empty]
      [] how = "flush" ->
            [state |-> "written", ret |-> "err", failed |-> "flush", disk |-> Empty]

\* one Export... call (for instance lines 38-93): os.Create, the header, the
\* rows, and the deferred writer.Flush() and file.Close(), whose failure nothing
\* reads (csv.Writer.Flush returns no value and writer.Error() is never called)
ExportFile(table, rows, how) ==
    CASE how = "none" ->
            [state |-> "written", ret |-> "nil", failed |-> "none",
             disk |-> Written(table, rows)]
      [] how = "create" ->
            \* return err, before anything is deferred
            [state |-> "absent", ret |-> "err", failed |-> "create", disk |-> Empty]
      [] how = "write" ->
            \* return err
            [state |-> "written", ret |-> "err", failed |-> "write", disk |-> Empty]
      [] how = "flush" ->
            \* return nil
            [state |-> "written", ret |-> "nil", failed |-> "flush", disk |-> Empty]

----------------------------------------------------------------------------
(* the state of a run before CollectAnimeData is called *)

RunIdle ==
    /\ pc = "lib"
    /\ topAnime = <<>>
    /\ enrichedAnime = <<>>
    /\ allReviews = <<>>
    /\ idx = 0
    /\ runErr = "nil"
    /\ files = [t \in Tables |-> NoFile]
    /\ detailLog = <<>>
    /\ reviewLog = <<>>
    /\ issued = {}

runVars == <<pc, topAnime, enrichedAnime, allReviews, idx, runErr, files,
             detailLog, reviewLog>>

----------------------------------------------------------------------------
(* SpecFetch: one call of fetchData *)

InitFetch ==
    /\ outs = NoScript
    /\ fetch = NoFetch
    /\ pg = PgIdle
    /\ RunIdle

FetchCall ==
    /\ fetch = NoFetch
    /\ \E e \in Endpoints : \E id \in UrlIds(e) : \E s \in Scripts(e, id) :
          /\ outs' = s
          /\ fetch' = FetchData(s)
    /\ UNCHANGED <<pg, issued>>
    /\ UNCHANGED runVars

NextFetch == FetchCall

SpecFetch == InitFetch /\ [][NextFetch]_vars

----------------------------------------------------------------------------
(* SpecPaginate: one call of GetTopAnime(limit) or GetAnimeReviews(id, limit) *)

InitPaginate ==
    /\ outs = NoScript
    /\ fetch = NoFetch
    /\ pg = PgIdle
    /\ RunIdle

PaginateCall ==
    /\ pc = "lib"
    /\ pg.status = "idle"
    /\ \E limit \in -1..MaxLimit :
          \/ pg' = PgEnter("top", 0, limit)
          \/ \E id \in Ids : pg' = PgEnter("reviews", id, limit)
    /\ UNCHANGED <<outs, fetch, issued>>
    /\ UNCHANGED runVars

\* one loop iteration of the paginated fetch in progress, its fetchData call
\* included; the GETs of the call are counted
PageStep ==
    /\ pc = "lib"
    /\ pg.status = "running"
    /\ \E r \in FetchReturnsCounted[pg.endpoint][pg.malID] :
          pg' = [PageIter(pg, Returned(r)) EXCEPT !.requests = pg.requests + r.requests]
    /\ issued' = issued \cup {pg.endpoint}
    /\ UNCHANGED <<outs, fetch>>
    /\ UNCHANGED runVars

NextPaginate == PaginateCall \/ PageStep

SpecPaginate == InitPaginate /\ [][NextPaginate]_vars

\* the program is one thread that does nothing but the call: the iteration in
\* progress is carried out (every GET ends, by an answer or by the 30 s
\* Timeout of the http.Client, and every sleep ends)
SpecPaginateFair == SpecPaginate /\ WF_vars(PageStep)

----------------------------------------------------------------------------
(* SpecExport: one call of one of the five Export... functions, for any
   collection *)

\* entries of a collection passed to an export
MaxEntries == 2
\* keys of a Scores map
MaxScoreKeys == 2

\* the keys a Scores map of the upstream may have: scores in range, written
\* plainly or with a leading zero, scores out of range and a word
ScoreKeys == {<<"1">>, <<"0", "1">>, <<"1", "0">>, <<"0">>, <<"1", "1">>, <<"x">>}

Snapshots == {Snapshot(K) : K \in {S \in SUBSET ScoreKeys : Cardinality(S) <= MaxScoreKeys}}

\* review bodies: letters, line feeds and carriage returns, up to one byte more
\* than the limit
Texts == SeqsUpTo({"a", "\n", "\r"}, ReviewTextLimit + 1)

InitExport ==
    /\ outs = NoScript
    /\ fetch = NoFetch
    /\ pg = PgIdle
    /\ pc = "lib"
    /\ idx = 0
    /\ runErr = "nil"
    /\ files = [t \in Tables |-> NoFile]
    /\ detailLog = <<>>
    /\ reviewLog = <<>>
    /\ issued = {}
    /\ \/ /\ topAnime \in SeqsUpTo(TopItems, MaxEntries)
          /\ enrichedAnime = <<>>
          /\ allReviews = <<>>
       \/ /\ topAnime = <<>>
          /\ \E S \in Snapshots :
                enrichedAnime \in
                    SeqsUpTo({AnimeData(id, st) : id \in Ids, st \in {Nil, S}}, MaxEntries)
          /\ allReviews = <<>>
       \/ /\ topAnime = <<>>
          /\ enrichedAnime = <<>>
          /\ \E T \in Texts :
                allReviews \in
                    SeqsUpTo({[mal_id |-> m, anime_id |-> 1, review |-> T] : m \in Ids},
                             MaxEntries)

\* one call of an export on a fresh output directory
ExportCall(table, rows) ==
    /\ pc = "lib"
    /\ \A t \in Tables : files[t] = NoFile
    /\ \E how \in ExportOutcomes : files' = [files EXCEPT ![table] = ExportFile(table, rows, how)]
    /\ UNCHANGED <<outs, fetch, pg, pc, topAnime, enrichedAnime, allReviews, idx, runErr,
                   detailLog, reviewLog, issued>>

CallExportAnimeBasicData == ExportCall("basic", BasicRows(topAnime))
CallExportAnimeGenres == ExportCall("genres", GenreRows(topAnime))
CallExportAnimeStudios == ExportCall("studios", StudioRows(topAnime))
CallExportAnimeStatistics ==
    \E orders \in ScoreOrders(enrichedAnime) :
        ExportCall("statistics", StatisticsRows(enrichedAnime, orders))
CallExportAnimeReviews == ExportCall("reviews", ReviewRows(allReviews))

NextExport ==
    \/ CallExportAnimeBasicData
    \/ CallExportAnimeGenres
    \/ CallExportAnimeStudios
    \/ CallExportAnimeStatistics
    \/ CallExportAnimeReviews

SpecExport == InitExport /\ [][NextExport]_vars

----------------------------------------------------------------------------
(* Spec: one run of collector.Collector.CollectAnimeData *)

\* the limits of the run, scaled down: config.MaxItemsToFetch (1000), the
\* entries that get details (100), the entries that get reviews (20), and the
\* reviews per entry (50)
MaxItemsToFetch == 3
DetailLimit == 2
ReviewAnimeLimit == 1
ReviewLimit == 1

\* every entry of the ranked list gets a detail fetch
DetailCountNoLimit(list) == Len(list)

\* line 69: limit := min(config.MaxItemsToFetch, 100), and the range over topAnime
DetailCount(list) == Min(Min(MaxItemsToFetch, DetailLimit), Len(list))
\* line 98: animeForReviews := min(20, len(topAnime))
AnimeForReviews(list) == Min(ReviewAnimeLimit, Len(list))

Init ==
    /\ outs = NoScript
    /\ fetch = NoFetch
    /\ pg = PgIdle
    /\ pc = "start"
    /\ topAnime = <<>>
    /\ enrichedAnime = <<>>
    /\ allReviews = <<>>
    /\ idx = 0
    /\ runErr = "nil"
    /\ files = [t \in Tables |-> NoFile]
    /\ detailLog = <<>>
    /\ reviewLog = <<>>
    /\ issued = {}

\* return fmt.Errorf(...): the run ends with an error
Abort(e) == pc' = "done" /\ runErr' = e

\* lines 31-40: exporter.Initialize() creates the output directory or fails
Initialize ==
    /\ pc = "start"
    /\ \/ pc' = "top" /\ UNCHANGED runErr
       \/ Abort("mkdir")
    /\ UNCHANGED <<outs, fetch, pg, topAnime, enrichedAnime, allReviews, idx, files,
                   detailLog, reviewLog, issued>>

\* line 44: c.GetTopAnime(config.MaxItemsToFetch) is entered
TopCall ==
    /\ pc = "top"
    /\ pg.status = "idle"
    /\ pg' = PgEnter("top", 0, MaxItemsToFetch)
    /\ UNCHANGED <<outs, fetch, issued>>
    /\ UNCHANGED runVars

\* the error of GetTopAnime is dropped and the run goes on with what it returned
TopReturnIgnoreErr ==
    /\ pc = "top"
    /\ pg.status \in {"ok", "err"}
    /\ pc' = "basic"
    /\ topAnime' = pg.result
    /\ pg' = PgIdle
    /\ UNCHANGED <<outs, fetch, enrichedAnime, allReviews, idx, runErr, files, detailLog,
                   reviewLog, issued>>

\* one loop iteration of the paginated fetch of the run, its fetchData call
\* included; the run keeps no log of the pages
RunPageStep ==
    /\ pc \in {"top", "reviews"}
    /\ pg.status = "running"
    /\ \E r \in FetchReturns[pg.endpoint][pg.malID] :
          pg' = [PageIter(pg, r) EXCEPT !.log = <<>>]
    /\ issued' = issued \cup {pg.endpoint}
    /\ UNCHANGED <<outs, fetch>>
    /\ UNCHANGED runVars

\* lines 44-47: GetTopAnime has returned
TopReturn ==
    /\ pc = "top"
    /\ pg.status \in {"ok", "err"}
    /\ IF pg.err # "nil"
       THEN Abort("top") /\ UNCHANGED topAnime
       ELSE pc' = "basic" /\ topAnime' = pg.result /\ UNCHANGED runErr
    /\ pg' = PgIdle
    /\ UNCHANGED <<outs, fetch, enrichedAnime, allReviews, idx, files, detailLog,
                   reviewLog, issued>>

\* one export step of the run: the table is exported, and the run goes on to
\* next when the export returned nil and ends with its error otherwise
ExportStep(at, table, rows, next) ==
    /\ pc = at
    /\ \E how \in ExportOutcomes :
          LET f == ExportFile(table, rows, how)
          IN  /\ files' = [files EXCEPT ![table] = f]
              /\ IF f.ret # "nil"
                 THEN Abort(table)
                 ELSE pc' = next /\ UNCHANGED runErr
    /\ idx' = 0
    /\ UNCHANGED <<outs, fetch, pg, topAnime, enrichedAnime, allReviews, detailLog,
                   reviewLog, issued>>

\* lines 49-52
ExportAnimeBasicData == ExportStep("basic", "basic", BasicRows(topAnime), "genres")
\* the detail pass starts right after the genre table
ExportAnimeGenresThenDetails ==
    ExportStep("genres", "genres", GenreRows(topAnime),
               IF DetailCount(topAnime) > 0 THEN "details" ELSE "statistics")

\* lines 54-57
ExportAnimeGenres == ExportStep("genres", "genres", GenreRows(topAnime), "studios")
\* lines 59-62; the detail pass follows
ExportAnimeStudios ==
    ExportStep("studios", "studios", StudioRows(topAnime),
               IF DetailCount(topAnime) > 0 THEN "details" ELSE "statistics")

\* GetAnimeDetails(malID) for the return r of its fetchData call: the entry and
\* a nil error, or no entry and an error (of fetchData or of json.Unmarshal)
GetAnimeDetails(malID, r) ==
    IF r.err # "nil"
    THEN [mal_id |-> malID, err |-> "err", data |-> Nil]
    ELSE IF ~DecodesAsSingle(r.body)
    THEN [mal_id |-> malID, err |-> "err", data |-> Nil]
    ELSE [mal_id |-> malID, err |-> "nil", data |-> r.body.data]

\* a failed detail fetch ends the run
DetailStepAbort ==
    /\ pc = "details"
    /\ idx < DetailCount(topAnime)
    /\ \E r \in FetchReturns["details"][topAnime[idx + 1].mal_id] :
          LET d == GetAnimeDetails(topAnime[idx + 1].mal_id, r)
          IN  /\ detailLog' = Append(detailLog, d)
              /\ IF d.err # "nil"
                 THEN Abort("details") /\ UNCHANGED enrichedAnime
                 ELSE /\ enrichedAnime' = Append(enrichedAnime, d.data)
                      /\ pc' = IF idx + 1 < DetailCount(topAnime)
                               THEN "details" ELSE "statistics"
                      /\ UNCHANGED runErr
    /\ idx' = idx + 1
    /\ issued' = issued \cup {"details"}
    /\ UNCHANGED <<outs, fetch, pg, topAnime, allReviews, files, reviewLog>>

\* lines 70-88: one iteration of the detail pass
DetailStep ==
    /\ pc = "details"
    /\ idx < DetailCount(topAnime)
    /\ \E r \in FetchReturns["details"][topAnime[idx + 1].mal_id] :
          LET d == GetAnimeDetails(topAnime[idx + 1].mal_id, r)
          IN  /\ detailLog' = Append(detailLog, d)
              /\ enrichedAnime' = IF d.err # "nil"
                                  THEN enrichedAnime
                                  ELSE Append(enrichedAnime, d.data)
    /\ idx' = idx + 1
    /\ pc' = IF idx + 1 < DetailCount(topAnime) THEN "details" ELSE "statistics"
    /\ issued' = issued \cup {"details"}
    /\ UNCHANGED <<outs, fetch, pg, topAnime, allReviews, runErr, files, reviewLog>>

\* lines 90-93; the review pass follows
ExportAnimeStatistics ==
    \E orders \in ScoreOrders(enrichedAnime) :
        ExportStep("statistics", "statistics", StatisticsRows(enrichedAnime, orders),
                   IF AnimeForReviews(topAnime) > 0 THEN "reviews" ELSE "exportReviews")

\* line 106: c.GetAnimeReviews(anime.MalID, reviewLimit) is entered for topAnime[i]
ReviewCall ==
    /\ pc = "reviews"
    /\ pg.status = "idle"
    /\ idx < AnimeForReviews(topAnime)
    /\ pg' = PgEnter("reviews", topAnime[idx + 1].mal_id, ReviewLimit)
    /\ UNCHANGED <<outs, fetch, issued>>
    /\ UNCHANGED runVars

\* lines 106-112: GetAnimeReviews has returned; the rest of the iteration
ReviewReturn ==
    /\ pc = "reviews"
    /\ pg.status \in {"ok", "err"}
    /\ reviewLog' = Append(reviewLog,
                           [mal_id |-> pg.malID,
                            err |-> IF pg.err = "nil" THEN "nil" ELSE "err",
                            data |-> pg.result])
    /\ allReviews' = IF pg.err # "nil" THEN allReviews ELSE allReviews \o pg.result
    /\ idx' = idx + 1
    /\ pc' = IF idx + 1 < AnimeForReviews(topAnime) THEN "reviews" ELSE "exportReviews"
    /\ pg' = PgIdle
    /\ UNCHANGED <<outs, fetch, topAnime, enrichedAnime, runErr, files, detailLog, issued>>

\* lines 115-120
ExportAnimeReviews == ExportStep("exportReviews", "reviews", ReviewRows(allReviews), "done")

Next ==
    \/ Initialize
    \/ TopCall
    \/ RunPageStep
    \/ TopReturn
    \/ ExportAnimeBasicData
    \/ ExportAnimeGenres
    \/ ExportAnimeStudios
    \/ DetailStep
    \/ ExportAnimeStatistics
    \/ ReviewCall
    \/ ReviewReturn
    \/ ExportAnimeReviews

Spec == Init /\ [][Next]_vars

----------------------------------------------------------------------------
(* Properties of fetchData (SpecFetch) *)

Called == fetch # NoFetch

\* the attempt that got a 200 with a readable body first, 0 when none did
FirstOk(script) ==
    IF \E i \in 1..MaxRetries : script[i].kind = "ok"
    THEN CHOOSE i \in 1..MaxRetries :
            /\ script[i].kind = "ok"
            /\ \A j \in 1..(i - 1) : script[j].kind # "ok"
    ELSE 0

\* the error an attempt that failed is known by
CauseOf(kind) ==
    CASE kind = "neterr" -> "net"
      [] kind = "429" -> "ratelimited"
      [] kind = "non200" -> "status"
      [] kind = "readerr" -> "read"
      [] OTHER -> "nil"

CountEv(trace, ev) == Cardinality({i \in DOMAIN trace : trace[i].ev = ev})

\* C1: when none of the MaxRetries attempts yields a 200 with a fully read body,
\* fetchData returns a non-nil error wrapping the cause of the last attempt, and
\* no bytes.
C1_ExhaustedReturnsError ==
    (Called /\ FirstOk(outs) = 0) =>
        /\ fetch.err = "failed"
        /\ fetch.cause = CauseOf(outs[MaxRetries].kind)
        /\ fetch.body = Nil

\* C3: one call issues at most MaxRetries requests whatever the failures are
\* (a 429 uses up an attempt like any other failure), exactly MaxRetries when
\* every attempt fails, and none after the first attempt that succeeds.
C3_AttemptBudget ==
    Called =>
        /\ fetch.requests <= MaxRetries
        /\ CountEv(fetch.trace, "request") = fetch.requests
        /\ FirstOk(outs) = 0 => fetch.requests = MaxRetries
        /\ FirstOk(outs) > 0 => fetch.requests = FirstOk(outs)

\* every attempt fails, in three different ways, one of them a 429
C3_Witness ==
    /\ Called
    /\ outs[1].kind = "429" /\ outs[2].kind = "neterr" /\ outs[3].kind = "non200"
    /\ fetch.requests = MaxRetries

\* the first k answers are 429 and answer k + 1 is a 200 with a readable body
RateLimitedThenOk(k) ==
    /\ \A i \in 1..k : outs[i].kind = "429"
    /\ outs[k + 1].kind = "ok"

\* C4: when the first k < MaxRetries attempts are answered 429 and the next
\* 200, fetchData makes exactly k + 1 requests, returns the body of the 200 with
\* a nil error, and has slept 2 x RateLimitDelay once after each of the k
\* rate-limited responses, right after the request.
C4_RateLimitedThenOk ==
    \A k \in 0..(MaxRetries - 1) :
        (Called /\ RateLimitedThenOk(k)) =>
            /\ fetch.requests = k + 1
            /\ fetch.err = "nil"
            /\ fetch.body = outs[k + 1].body
            /\ CountEv(fetch.trace, "backoff") = k
            /\ \A i \in DOMAIN fetch.trace :
                  fetch.trace[i].ev = "backoff" =>
                      /\ fetch.trace[i].d = 2 * RateLimitDelay
                      /\ fetch.trace[i - 1] = Request
            /\ fetch.trace[Len(fetch.trace)].ev = "throttle"

\* 429 twice, then 200 with a page
C4_Witness ==
    /\ Called
    /\ RateLimitedThenOk(2)
    /\ fetch.body.kind = "page"
    /\ fetch.err = "nil"

Last(s) == s[Len(s)]

\* C12: a return of fetchData with a nil error comes right after one sleep of
\* RateLimitDelay, the last thing the call does, whichever attempt succeeded,
\* and that sleep is taken once; a return with an error comes without it.
C12_ThrottleOnNilReturnOnly ==
    Called =>
        /\ fetch.err = "nil" =>
                /\ Last(fetch.trace) = Sleep("throttle", RateLimitDelay)
                /\ CountEv(fetch.trace, "throttle") = 1
        /\ fetch.err # "nil" =>
                /\ CountEv(fetch.trace, "throttle") = 0
                /\ Last(fetch.trace) = Request

\* the second attempt succeeded after a transport error
C12_Witness ==
    /\ Called
    /\ outs[1].kind = "neterr" /\ outs[2].kind = "ok"
    /\ fetch.err = "nil"
    /\ fetch.requests = 2

\* the positions of the requests in a trace, in order
RequestAt(trace, k) ==
    CHOOSE i \in DOMAIN trace :
        /\ trace[i] = Request
        /\ Cardinality({j \in 1..i : trace[j] = Request}) = k

\* C13: the first request of a call is preceded by nothing; every later request
\* comes right after one sleep of RetryDelay, and between the previous request
\* and that sleep there is nothing when the previous attempt ended in a
\* transport error, a non-200 status or a body-read error, and the sleep of
\* 2 x RateLimitDelay when it ended in a 429.
C13_RetryDelayBeforeEachRetry ==
    Called =>
        /\ RequestAt(fetch.trace, 1) = 1
        /\ CountEv(fetch.trace, "retry") = fetch.requests - 1
        /\ \A k \in 2..fetch.requests :
              LET i == RequestAt(fetch.trace, k)
                  j == RequestAt(fetch.trace, k - 1)
              IN  /\ fetch.trace[i - 1] = Sleep("retry", RetryDelay)
                  /\ IF outs[k - 1].kind = "429"
                     THEN /\ i = j + 3
                          /\ fetch.trace[j + 1] = Sleep("backoff", 2 * RateLimitDelay)
                     ELSE i = j + 2

\* a 429 and a body-read error, then a 200
C13_Witness ==
    /\ Called
    /\ outs[1].kind = "429" /\ outs[2].kind = "readerr" /\ outs[3].kind = "ok"
    /\ fetch.requests = 3
    /\ Len(fetch.trace) = 7

\* C23: when fetchData returns a nil error, the bytes it returns are the whole
\* body of the 200 response of the last attempt it made: never no bytes, and
\* never the bytes an attempt had read when its body read failed.
C23_NilErrorReturnsCompleteBody ==
    (Called /\ fetch.err = "nil") =>
        /\ outs[fetch.requests].kind = "ok"
        /\ fetch.body = outs[fetch.requests].body
        /\ fetch.body # Nil
        /\ fetch.body # PartialBody

----------------------------------------------------------------------------
(* Properties of the paginated fetches (SpecPaginate) *)

PageCounts(log) == [i \in DOMAIN log |-> log[i].count]

\* C2: the collection a successful GetTopAnime / GetAnimeReviews returns has
\* min(limit, sum of the item counts of all pages fetched, the page on which the
\* loop ended included) items.
C2_LengthIsMinOfLimitAndFetched ==
    (pg.status = "ok" /\ pg.limit >= 0) =>
        Len(pg.result) = Min(pg.limit, SeqSum(PageCounts(pg.log)))

\* C5: when the body of a page fails to decode, the call returns a decode error
\* and no collection, whatever earlier pages brought; that page is not asked
\* for again and no later page is asked for.
C5_DecodeErrorAborts ==
    \A i \in DOMAIN pg.log :
        pg.log[i].res = "decodeerr" =>
            /\ i = Len(pg.log)
            /\ pg.status = "err"
            /\ pg.err = "decode"
            /\ pg.result = <<>>
            /\ \A j \in 1..(i - 1) : pg.log[j].page # pg.log[i].page

\* page 2 fails to decode after page 1 brought items
C5_Witness ==
    /\ Len(pg.log) = 2
    /\ pg.log[1].res = "ok"
    /\ pg.log[2].res = "decodeerr"
    /\ pg.all # <<>>
    /\ pg.status = "err"

\* the items appended to the accumulated collection by the first k pages
Accumulated(log, k) == SeqSum([i \in 1..k |-> log[i].count])

\* the page neither is empty, nor is the last one, nor fills the collection
GoesOn(log, i, limit) ==
    /\ log[i].res = "ok"
    /\ log[i].count > 0
    /\ log[i].more
    /\ Accumulated(log, i) < limit

\* C11: a paginated fetch asks for the next page only while no page was empty,
\* none reported has_next_page false and the accumulated count stays below
\* limit, and it returns on the first page for which one of the three holds;
\* what it returns never has more than limit items, and has exactly limit items
\* when it returned because the accumulated count reached or passed limit.
C11_EndsOnFirstCondition ==
    LET n == Len(pg.log)
    IN  /\ \A i \in 1..(n - 1) : GoesOn(pg.log, i, pg.limit)
        /\ (pg.status = "running" /\ n > 0) => GoesOn(pg.log, n, pg.limit)
        /\ (pg.status = "ok" /\ n > 0) =>
                /\ pg.log[n].res = "ok"
                /\ ~GoesOn(pg.log, n, pg.limit)
        /\ (pg.status = "ok" /\ pg.limit >= 0) => Len(pg.result) <= pg.limit
        /\ (pg.status = "ok" /\ n > 0 /\ pg.log[n].count > 0 /\ pg.log[n].more) =>
                /\ Accumulated(pg.log, n) >= pg.limit
                /\ Len(pg.result) = pg.limit
                /\ pg.result = pg.all
        /\ (pg.status = "ok" /\ n = 0) => (pg.limit <= 0 /\ pg.result = <<>>)

\* two full pages came, the second passed the limit and the collection was cut
C11_Witness ==
    /\ pg.status = "ok"
    /\ Len(pg.log) = 2
    /\ pg.log[2].more
    /\ Accumulated(pg.log, 2) > pg.limit
    /\ Len(pg.result) = pg.limit

\* the step asks for a page: the log of the call in progress grows by a page
AsksForPage == pg.status = "running" /\ Len(pg'.log) = Len(pg.log) + 1

\* C21: a step that asks for a page after the first is taken only when the
\* page before it came and decoded, was not empty, reported has_next_page true
\* and left the accumulated count below limit; once a page was empty or
\* reported has_next_page false, or the count has reached limit, the call has
\* returned and no step asks for a page.
C21_NextPageOnlyWhenMore ==
    /\ [][(AsksForPage /\ pg.log # <<>>) =>
            LET prev == pg.log[Len(pg.log)]
            IN  /\ prev.res = "ok"
                /\ prev.count > 0
                /\ prev.more
                /\ Len(pg.all) < pg.limit]_vars
    /\ [][AsksForPage => Len(pg.all) < pg.limit]_vars
    /\ [][pg.status \in {"ok", "err"} => pg'.log = pg.log]_vars

\* page 2 was asked for after a page 1 that brought one item of three wanted
C21_Witness ==
    /\ Len(pg.log) >= 2
    /\ pg.log[1].count = 1
    /\ pg.log[1].more
    /\ pg.limit = 3

\* C22: the pages one paginated fetch asks for are 1, 2, ..., k in this order:
\* the first is page 1, each page that came and did not end the loop is
\* followed by the next number, and no number is asked for by two fetchData
\* calls; with limit <= 0 no page is asked for.
C22_PageNumbersCountUp ==
    /\ \A i \in DOMAIN pg.log : pg.log[i].page = i
    /\ pg.status = "running" => pg.page = Len(pg.log) + 1
    /\ (pg.status # "idle" /\ pg.limit <= 0) => pg.log = <<>>

\* three pages were asked for
C22_Witness ==
    /\ Len(pg.log) = 3
    /\ pg.log[3].page = 3
    /\ pg.status = "ok"

Max0(n) == IF n > 0 THEN n ELSE 0

\* C25: every call of GetTopAnime(limit) / GetAnimeReviews(id, limit) returns,
\* whatever the upstream answers, after at most max(limit, 0) page fetches and
\* at most MaxRetries x max(limit, 0) GETs; with limit <= 0 it makes no request
\* and returns the empty collection and a nil error.
C25_PaginatedFetchTerminates ==
    /\ [](pg.status # "idle" =>
            /\ Len(pg.log) <= Max0(pg.limit)
            /\ pg.requests <= MaxRetries * Max0(pg.limit)
            /\ pg.limit <= 0 =>
                  /\ pg.status = "ok"
                  /\ pg.result = <<>>
                  /\ pg.err = "nil"
                  /\ pg.requests = 0
                  /\ pg.log = <<>>)
    /\ (pg.status = "running" ~> pg.status \in {"ok", "err"})

\* a call that returned after as many pages as its limit allows, each of them
\* fetched with MaxRetries GETs
C25_Witness ==
    /\ pg.status = "ok"
    /\ pg.limit = MaxLimit
    /\ Len(pg.log) = MaxLimit
    /\ pg.requests = MaxRetries * MaxLimit

\* the items of the pages the call fetched, in page order
PagesFetched(log) == Flatten([i \in DOMAIN log |-> log[i].data])

\* C26: what a successful paginated fetch returns is a prefix of the items of
\* the pages it fetched, taken in page order and, within a page, in the order
\* of the page: no item is moved, repeated or added.
C26_ResultIsPrefixOfPages ==
    pg.status = "ok" =>
        /\ Len(pg.result) <= Len(PagesFetched(pg.log))
        /\ pg.result = SubSeq(PagesFetched(pg.log), 1, Len(pg.result))

\* two pages of two different items each, cut to three
C26_Witness ==
    /\ pg.status = "ok"
    /\ Len(pg.log) = 2
    /\ Len(pg.result) = 3
    /\ Len(pg.log[1].data) = 2
    /\ Len(pg.log[2].data) = 2
    /\ pg.log[1].data[1] # pg.log[1].data[2]
    /\ pg.log[2].data[1] # pg.log[2].data[2]
    /\ pg.result[3] = pg.log[2].data[1]

----------------------------------------------------------------------------
(* Properties of the exports (SpecExport) *)

RowIds(rows) == {rows[k].anime_id : k \in DOMAIN rows}
CountId(rows, id) == Cardinality({k \in DOMAIN rows : rows[k].anime_id = id})

\* the table was exported and no file operation failed
WrittenWhole(t) == files[t] # NoFile /\ files[t].failed = "none"

HasStatistics(anime) == anime.statistics # Nil
WithStatistics(animeList) == SelectSeq(animeList, HasStatistics)

\* C14: the statistics table of a collection has one row for each entry that
\* has statistics, in the order of the collection, and none for an entry that
\* has not; an entry without statistics is no error of the export and the rows
\* of the entries after it are written.
C14_OneRowPerSnapshot ==
    WrittenWhole("statistics") =>
        LET rows == DataRows(files["statistics"].disk)
            with == WithStatistics(enrichedAnime)
        IN  /\ files["statistics"].ret = "nil"
            /\ Len(rows) = Len(with)
            /\ \A k \in DOMAIN rows : rows[k].anime_id = with[k].mal_id
            /\ \A id \in Ids :
                  CountId(rows, id) =
                      Cardinality({i \in DOMAIN enrichedAnime :
                                      /\ enrichedAnime[i].mal_id = id
                                      /\ enrichedAnime[i].statistics # Nil})

\* an entry without statistics, then one of another id with statistics
C14_Witness ==
    /\ WrittenWhole("statistics")
    /\ Len(enrichedAnime) = 2
    /\ enrichedAnime[1].statistics = Nil
    /\ enrichedAnime[2].statistics # Nil
    /\ enrichedAnime[1].mal_id # enrichedAnime[2].mal_id
    /\ Len(DataRows(files["statistics"].disk)) = 1

\* the score a key of the Scores map stands for, 0 when it stands for none
KeyScore(key) ==
    CASE key = <<"1">> -> 1
      [] key = <<"0", "1">> -> 1
      [] key = <<"1", "0">> -> 10
      [] OTHER -> 0

\* the votes and the percentage of a key as they are printed
PrintedData(key) ==
    IF Len(key) = 1
    THEN <<<<"5">>, <<"1", "2", ".", "3", "4">>>>
    ELSE <<<<"6">>, <<"3", ".", "0", "0">>>>

\* C15: a statistics row has 7 + 20 columns; for each score s of 1..10, in
\* ascending order, the columns 7 + 2s - 1 and 7 + 2s hold the votes and the
\* percentage (two decimals) of a key of the snapshot that stands for s, and
\* "0", "0" when the snapshot has none; keys that are no number or stand for a
\* score outside 1..10 change nothing.
C15_ScoreColumns ==
    WrittenWhole("statistics") =>
        LET rows == DataRows(files["statistics"].disk)
            with == WithStatistics(enrichedAnime)
        IN  \A k \in DOMAIN rows :
                LET cols == rows[k].cols
                    scores == with[k].statistics.scores
                IN  /\ Len(cols) = 7 + 20
                    /\ SubSeq(cols, 2, 7) =
                          <<<<"3">>, <<"2">>, <<"1">>, <<"1">>, <<"0">>, <<"7">>>>
                    /\ \A sc \in 1..10 :
                          LET pair == <<cols[7 + 2 * sc - 1], cols[7 + 2 * sc]>>
                              keys == {key \in DOMAIN scores : KeyScore(key) = sc}
                          IN  IF keys = {}
                              THEN pair = <<<<"0">>, <<"0">>>>
                              ELSE pair \in {PrintedData(key) : key \in keys}

\* a snapshot with a key for score 10 and a key for score 11
C15_Witness ==
    /\ WrittenWhole("statistics")
    /\ \E k \in DOMAIN enrichedAnime :
          /\ enrichedAnime[k].statistics # Nil
          /\ DOMAIN enrichedAnime[k].statistics.scores = {<<"1", "0">>, <<"1", "1">>}
    /\ \E r \in DOMAIN files["statistics"].disk :
          /\ r > 1
          /\ files["statistics"].disk[r].cols[26] = <<"6">>
          /\ files["statistics"].disk[r].cols[27] = <<"3", ".", "0", "0">>

\* a byte of a review body as it is written
Cleaned(b) == IF b \in {"\n", "\r"} THEN " " ELSE b

\* C16: the review_text of every review row has no line feed and no carriage
\* return: up to the cut, each byte of the body is written as it is, except
\* that a line feed and a carriage return are each written as one space.
C16_NoLineBreaksInReviewText ==
    WrittenWhole("reviews") =>
        LET rows == DataRows(files["reviews"].disk)
        IN  \A i \in DOMAIN rows :
                LET text == rows[i].review_text
                    body == allReviews[i].review
                IN  /\ \A j \in DOMAIN text : text[j] \notin {"\n", "\r"}
                    /\ \A j \in DOMAIN body :
                          j <= ReviewTextLimit =>
                              text[j] = Cleaned(body[j])

\* a body that is a carriage return followed by a line feed
C16_Witness ==
    /\ WrittenWhole("reviews")
    /\ \E i \in DOMAIN allReviews :
          /\ allReviews[i].review = <<"\r", "\n">>
          /\ files["reviews"].disk[i + 1].review_text = <<" ", " ">>

C18_RowsIndependentOfMapOrder ==
    WrittenWhole("statistics") =>
        \A orders \in ScoreOrders(enrichedAnime) :
            DataRows(files["statistics"].disk) = StatisticsRows(enrichedAnime, orders)

\* the rows of the link table before those of entry i
TagsBefore(animeList, i, table) ==
    SeqSum([k \in 1..(i - 1) |->
        IF table = "genres" THEN Len(animeList[k].genres) ELSE Len(animeList[k].studios)])

TagsOfEntry(anime, table) == IF table = "genres" THEN anime.genres ELSE anime.studios

\* the collection an export is given
InputOf(table) ==
    CASE table \in {"basic", "genres", "studios"} -> topAnime
      [] table = "statistics" -> enrichedAnime
      [] table = "reviews" -> allReviews

\* C19: the first line of every exported table is its header, also when the
\* collection is empty; the data rows follow in the order of the collection (in
\* the link tables in the order of the entries and, within an entry, of its
\* tags), each once, none missing but the entries without statistics.
C19_HeaderThenRowsInOrder ==
    \A t \in Tables :
        WrittenWhole(t) =>
            LET disk == files[t].disk
                rows == DataRows(disk)
            IN  /\ Len(disk) >= 1
                /\ disk[1] = [header |-> Columns(t)]
                /\ InputOf(t) = <<>> => Len(disk) = 1
                /\ t = "basic" =>
                      /\ Len(rows) = Len(topAnime)
                      /\ \A i \in DOMAIN rows : rows[i].anime_id = topAnime[i].mal_id
                /\ t \in {"genres", "studios"} =>
                      /\ Len(rows) = TagsBefore(topAnime, Len(topAnime) + 1, t)
                      /\ \A i \in DOMAIN topAnime :
                            \A j \in DOMAIN TagsOfEntry(topAnime[i], t) :
                                LET row == rows[TagsBefore(topAnime, i, t) + j]
                                IN  /\ row.anime_id = topAnime[i].mal_id
                                    /\ row.tag = TagsOfEntry(topAnime[i], t)[j]
                /\ t = "statistics" =>
                      /\ Len(rows) = Len(WithStatistics(enrichedAnime))
                      /\ \A i \in DOMAIN rows :
                            rows[i].anime_id = WithStatistics(enrichedAnime)[i].mal_id
                /\ t = "reviews" =>
                      /\ Len(rows) = Len(allReviews)
                      /\ \A i \in DOMAIN rows : rows[i].tag = allReviews[i].mal_id

\* the genre table of two entries with two genres each
C19_Witness ==
    /\ WrittenWhole("genres")
    /\ Len(topAnime) = 2
    /\ Len(files["genres"].disk) = 5
    /\ files["genres"].disk[2].tag # files["genres"].disk[3].tag

----------------------------------------------------------------------------
(* Properties of a run (Spec) *)

Done == pc = "done"
Succeeded == pc = "done" /\ runErr = "nil"

\* the export of the table has been called
Attempted(t) == files[t] # NoFile

DetailPassOver == pc \in {"statistics", "reviews", "exportReviews"} \/ Attempted("statistics")
ReviewPassOver == pc = "exportReviews" \/ Attempted("reviews")

IsOk(e) == e.err = "nil"
OkData(log) == LET ok == SelectSeq(log, IsOk) IN [i \in DOMAIN ok |-> ok[i].data]

\* C6: whichever detail or review fetches fail, every entry of the pass is still
\* attempted, in ranked order; the failure of an item never is the error of the
\* run, so every later export step runs and the run returns nil when no export
\* fails; enrichedAnime and allReviews hold exactly the results of the items
\* that succeeded, in ranked order.
C6_ItemFailuresAreSkipped ==
    /\ \A i \in DOMAIN detailLog : detailLog[i].mal_id = topAnime[i].mal_id
    /\ \A i \in DOMAIN reviewLog : reviewLog[i].mal_id = topAnime[i].mal_id
    /\ DetailPassOver => Len(detailLog) = DetailCount(topAnime)
    /\ ReviewPassOver => Len(reviewLog) = AnimeForReviews(topAnime)
    /\ enrichedAnime = OkData(detailLog)
    /\ allReviews = Flatten(OkData(reviewLog))
    /\ runErr \in {"nil", "mkdir", "top"} \cup Tables
    /\ (Done /\ runErr \notin {"mkdir", "top"} /\ \A t \in Tables : files[t].ret = "nil") =>
            /\ runErr = "nil"
            /\ \A t \in Tables : Attempted(t)

\* a run that returned nil although the first detail fetch and a review fetch
\* failed; the second detail fetch succeeded
C6_Witness ==
    /\ Succeeded
    /\ Len(detailLog) = 2
    /\ detailLog[1].err # "nil"
    /\ detailLog[2].err = "nil"
    /\ \E i \in DOMAIN reviewLog : reviewLog[i].err # "nil"
    /\ \A t \in Tables : files[t].failed = "none"

\* C20: the detail pass fetches the first min(DetailLimit, n) entries of a
\* ranked list of n entries and the review pass the first
\* min(ReviewAnimeLimit, n), one fetch per entry, in ranked order, whether the
\* fetch fails or not; a review fetch brings at most ReviewLimit reviews; so the
\* statistics table has at most DetailLimit rows and the reviews table at most
\* ReviewAnimeLimit x ReviewLimit.
C20_SubLimits ==
    LET n == Len(topAnime)
    IN  /\ Len(detailLog) <= Min(DetailLimit, n)
        /\ Len(reviewLog) <= Min(ReviewAnimeLimit, n)
        /\ DetailPassOver => Len(detailLog) = Min(DetailLimit, n)
        /\ ReviewPassOver => Len(reviewLog) = Min(ReviewAnimeLimit, n)
        /\ \A i \in DOMAIN detailLog : detailLog[i].mal_id = topAnime[i].mal_id
        /\ \A i \in DOMAIN reviewLog :
              /\ reviewLog[i].mal_id = topAnime[i].mal_id
              /\ Len(reviewLog[i].data) <= ReviewLimit
        /\ Len(enrichedAnime) <= DetailLimit
        /\ Len(allReviews) <= ReviewAnimeLimit * ReviewLimit
        /\ Len(DataRows(files["statistics"].disk)) <= DetailLimit
        /\ Len(DataRows(files["reviews"].disk)) <= ReviewAnimeLimit * ReviewLimit

\* a ranked list longer than both sub-limits, a failed detail fetch among the
\* fetched ones, and a review fetch that brought ReviewLimit reviews
C20_Witness ==
    /\ Succeeded
    /\ Len(topAnime) > DetailLimit
    /\ DetailLimit > ReviewAnimeLimit
    /\ Len(detailLog) = DetailLimit
    /\ detailLog[1].err # "nil"
    /\ Len(reviewLog) = ReviewAnimeLimit
    /\ Len(allReviews) = ReviewAnimeLimit * ReviewLimit
    /\ Len(DataRows(files["reviews"].disk)) = ReviewAnimeLimit * ReviewLimit

\* the mal_id of the ranked entry each fetched review was fetched for
EntryOfReviews(log) ==
    LET ok == SelectSeq(log, IsOk)
    IN  Flatten([i \in DOMAIN ok |-> [j \in DOMAIN ok[i].data |-> ok[i].mal_id]])

\* C24: in the reviews table of a run, the row of a review fetched for ranked
\* entry E carries E's mal_id as anime_id, whatever anime reference the review
\* payload has, so every review row names an entry of the ranked list.
C24_ReviewRowsCarryEntryId ==
    WrittenWhole("reviews") =>
        LET rows == DataRows(files["reviews"].disk)
        IN  /\ [k \in DOMAIN rows |-> rows[k].anime_id] = EntryOfReviews(reviewLog)
            /\ RowIds(rows) \subseteq {topAnime[i].mal_id : i \in DOMAIN topAnime}

\* the export of the table was called and returned nil
Exported(t) == Attempted(t) /\ files[t].ret = "nil"

\* the tables whose file differs between the two ends of a step
Touched == {t \in Tables : files'[t] # files[t]}

\* C27: the tables are exported in the order basic, genres, studios,
\* statistics, reviews, each export being called only after the one before it
\* returned nil; the first three are exported before the first detail request
\* and the statistics table before the first review request; a step that
\* creates, writes and closes a file does so for one table, with no paginated
\* fetch in progress, and makes no request.
C27_ExportsInOrderAndAlone ==
    /\ [](/\ Attempted("genres") => Exported("basic")
          /\ Attempted("studios") => Exported("genres")
          /\ Attempted("statistics") => Exported("studios")
          /\ Attempted("reviews") => Exported("statistics")
          /\ "details" \in issued => Exported("studios")
          /\ detailLog # <<>> => Exported("studios")
          /\ "reviews" \in issued => Exported("statistics")
          /\ reviewLog # <<>> => Exported("statistics"))
    /\ [][Touched # {} =>
            /\ Cardinality(Touched) = 1
            /\ \A t \in Touched : files[t] = NoFile
            /\ pg.status = "idle"
            /\ UNCHANGED <<pg, issued, detailLog, reviewLog, topAnime, enrichedAnime,
                           allReviews>>]_vars

\* a run that made both passes and wrote all five tables
C27_Witness ==
    /\ Succeeded
    /\ \A t \in Tables : WrittenWhole(t)
    /\ issued = {"top", "details", "reviews"}
    /\ detailLog # <<>>
    /\ reviewLog # <<>>

\* C7: when GetTopAnime returns an error, CollectAnimeData returns an error at
\* once: no table is created or written and no detail or review request is made.
C7_TopFailureAborts ==
    /\ [][(pc = "top" /\ pg.status = "err") =>
            /\ pc' = "done"
            /\ runErr' # "nil"
            /\ UNCHANGED <<files, issued, detailLog, reviewLog>>]_vars
    /\ [](runErr = "top" =>
            /\ pc = "done"
            /\ \A t \in Tables : files[t] = NoFile
            /\ issued \subseteq {"top"}
            /\ detailLog = <<>> /\ reviewLog = <<>>)

\* the run ended on the error of the ranked-list fetch
C7_Witness == pc = "done" /\ runErr = "top" /\ issued = {"top"}

\* C8: when creating or writing a table fails (os.Create, a row write, the final
\* flush), the export returns an error and the run ends with an error, without
\* any later fetch or export step.
C8_ExportFailureAborts ==
    \A t \in Tables : files[t].failed # "none" => (pc = "done" /\ runErr = t)

\* C9: after a successful run no two rows of the basic table have the same
\* mal_id, whatever the pages of the ranked list hold.
C9_BasicIdsUnique ==
    Succeeded =>
        LET rows == DataRows(files["basic"].disk)
        IN  \A i, j \in DOMAIN rows : rows[i].anime_id = rows[j].anime_id => i = j

\* the genre (studio) tags the entries with this id carry in the ranked list
TagsOf(list, id, table) ==
    SeqSum([k \in DOMAIN list |->
        IF list[k].mal_id # id THEN 0
        ELSE IF table = "genres" THEN Len(list[k].genres) ELSE Len(list[k].studios)])

\* C10: after a successful run every row of the genre table and of the studio
\* table carries the mal_id of a row of the basic table, and the table holds one
\* row per tag of each entry, none for an entry without tags.
C10_LinkRowsReferenceBasic ==
    Succeeded =>
        \A t \in {"genres", "studios"} :
            /\ RowIds(DataRows(files[t].disk)) \subseteq RowIds(DataRows(files["basic"].disk))
            /\ \A id \in Ids : CountId(DataRows(files[t].disk), id) = TagsOf(topAnime, id, t)

====
